---- MODULE Spec2Model ----
(***************************************************************************)
(* Model of the matchy service layer: the event service, the profile       *)
(* service, the login of the auth service and the insert triggers of the   *)
(* database.  Times are whole hours.  Every action writes `last`, the      *)
(* outcome of the handler that just ran, so that a property about a call   *)
(* is a property of the state right after it.                              *)
(***************************************************************************)
EXTENDS Integers, Sequences, FiniteSets, TLC

VARIABLES user, events, groups, storage, registrations, votes,
          profileRow, profileStore, inflight, lastWriter, clean, overlap,
          last

vars == <<user, events, groups, storage, registrations, votes,
          profileRow, profileStore, inflight, lastWriter, clean, overlap,
          last>>

eventVars == <<events, groups, storage>>
profileVars == <<profileRow, profileStore, inflight, lastWriter, clean, overlap>>

(* ------------------------------ bounds -------------------------------- *)
MaxTime == 2
MaxEvents == 2
MaxUploads == 2
MaxRegs == 1
MaxVotes == 2
MaxCalls == 2

(* ------------------------------ values -------------------------------- *)
\* JavaScript undefined and SQL NULL / JavaScript null
Undef == "undefined"
Null == "null"

\* authStore.user: absent, or a user object with an id and (possibly) an email
NoUser == [id |-> Undef, email |-> Undef]
U1 == [id |-> "u1", email |-> "e1"]
U2 == [id |-> "u2", email |-> "e2"]
U1NoEmail == [id |-> "u1", email |-> Undef]

\* optional numeric fields that are absent
NoGroupId == 0
NoKey == 0

Times == 0..MaxTime
Zones == {0, 1}

\* the outcome of the handler that ran last
Outcome(op, threw, err, result, query, now, arg) ==
  [op |-> op, threw |-> threw, err |-> err, result |-> result,
   query |-> query, now |-> now, arg |-> arg]

(* ------------------------- date/time helpers -------------------------- *)
\* A Temporal.ZonedDateTime holds wall-clock fields and a zone offset.
toInstant(z) == z.wall - z.zone
toZonedDateTimeISO(i, tz) == [wall |-> i + tz, zone |-> tz]
\* the timestamptz string the database sends: wall-clock fields and an offset
ToTimestamptz(i) == [wall |-> i, zone |-> 0]
InstantFrom(s) == s.wall - s.zone
timestamptzToTemporalZonedDateTime(s, tz) == toZonedDateTimeISO(InstantFrom(s), tz)
dateXHoursAgo(now, tz, x) == toZonedDateTimeISO(now - x, tz)

(* ------------------------------ login --------------------------------- *)
\* login: authStore.setUserStore(result.user); result.user may be absent
Login(u) ==
  /\ user' = u
  /\ last' = Outcome("login", FALSE, "", <<>>, "none", 0, u)
  /\ UNCHANGED <<eventVars, registrations, votes, profileVars>>

(* --------------------------- event queries ---------------------------- *)
\* the mutant of EventsFilter: datetime >= cutoff instead of >
EventsFilter_gte(e, cutoff) ==
  /\ ~(e.is_cancelled = TRUE)
  /\ ~(e.is_ended = TRUE)
  /\ e.datetime >= cutoff

\* .not("is_cancelled","eq",true).not("is_ended","eq",true).gt("datetime", cutoff)
EventsFilter(e, cutoff) ==
  /\ ~(e.is_cancelled = TRUE)
  /\ ~(e.is_ended = TRUE)
  /\ e.datetime > cutoff

\* .order("datetime", {ascending: true}): every listing of S that is
\* non-decreasing by datetime (rows with equal datetime come in any order)
OrderAsc(S) ==
  {s \in [1..Cardinality(S) -> S] :
     /\ \A i, j \in 1..Cardinality(S) : i # j => s[i] # s[j]
     /\ \A i, j \in 1..Cardinality(S) : i < j => s[i].datetime <= s[j].datetime}

\* a row as sent over the wire: datetime is a string
WireRow(e) == [e EXCEPT !.datetime = ToTimestamptz(e.datetime)]

\* events.map(e => ({...e, datetime: Instant.from(e.datetime).toZonedDateTimeISO(tz)}))
ParseEvents(rows, tz) ==
  [i \in 1..Len(rows) |->
     [rows[i] EXCEPT !.datetime = toZonedDateTimeISO(InstantFrom(rows[i].datetime), tz)]]

\* events?.map(e => ({...e, datetime: timestamptzToTemporalZonedDateTime(e.datetime)}))
ParseUserEvents(rows, tz) ==
  [i \in 1..Len(rows) |->
     [rows[i] EXCEPT !.datetime = timestamptzToTemporalZonedDateTime(rows[i].datetime, tz)]]

QueryOutcomes == {"error", "null", "data"}

fetchEvents ==
  /\ \E q \in QueryOutcomes :
       IF q = "error"
         THEN last' = Outcome("fetchEvents", TRUE, "query error", <<>>, q, 0, 0)
       ELSE IF q = "null"
         THEN last' = Outcome("fetchEvents", TRUE, "Failed to fetch events", <<>>, q, 0, 0)
       ELSE \E now \in Times, tz \in Zones :
              LET anHourAgo == dateXHoursAgo(now, tz, 1)
                  matching == {e \in events : EventsFilter(e, toInstant(anHourAgo))}
              IN \E ordered \in OrderAsc(matching) :
                   LET rows == [i \in 1..Len(ordered) |-> WireRow(ordered[i])]
                   IN last' =
                        IF Len(rows) = 0
                          \* console.log(events[0].datetime) on an empty array
                          THEN Outcome("fetchEvents", TRUE, "TypeError", <<>>, q, now, tz)
                          ELSE Outcome("fetchEvents", FALSE, "", ParseEvents(rows, tz), q, now, tz)
  /\ UNCHANGED <<user, eventVars, registrations, votes, profileVars>>

\* the value of a filter as the client writes it into the request
FilterValue(v) == v

fetchUserEvents ==
  /\ \E q \in QueryOutcomes :
       IF q = "error"
         THEN last' = Outcome("fetchUserEvents", TRUE, "query error", <<>>, q, 0, 0)
       ELSE IF q = "null"
         THEN last' = Outcome("fetchUserEvents", TRUE, "Could not load user's events", <<>>, q, 0, 0)
       ELSE \E now \in Times, tz \in Zones :
              LET anHourAgo == dateXHoursAgo(now, tz, 1)
                  uid == FilterValue(user.id)
                  matching == {e \in events :
                                 /\ EventsFilter(e, toInstant(anHourAgo))
                                 /\ \E r \in registrations :
                                      r.event_id = e.id /\ r.user_id = uid}
              IN \E ordered \in OrderAsc(matching) :
                   LET rows == [i \in 1..Len(ordered) |-> WireRow(ordered[i])]
                   IN last' = Outcome("fetchUserEvents", FALSE, "", ParseUserEvents(rows, tz),
                                      q, now, tz)
  /\ UNCHANGED <<user, eventVars, registrations, votes, profileVars>>

(* --------------------------- event creation --------------------------- *)
\* the mutant of CreationFailed: the test of creationError inverted
CreationFailed_inverted(cr) == cr = "ok"

\* if (creationError) throw creationError
CreationFailed(cr) == cr # "ok"

UploadOutcomes(d) ==
  IF d.headerImageFile THEN {"error", "nokey", "ok"} ELSE {"none"}

\* the row the database persists for a created event
EventRow(id, d, image, pair) ==
  [id |-> id, datetime |-> toInstant(d.datetime), header_image |-> image,
   pair |-> pair, is_ended |-> FALSE, is_cancelled |-> FALSE]

\* create_event_with_groups: the event, its two groups and their pairing, at once
create_event_with_groups(id, d, image) ==
  /\ events' = events \cup {EventRow(id, d, image, <<2 * id - 1, 2 * id>>)}
  /\ groups' = groups \cup {[id |-> 2 * id - 1, title |-> d.event_groups[1]],
                            [id |-> 2 * id, title |-> d.event_groups[2]]}

\* supabase.from("events").insert({...eventData, event_group_pair: undefined})
InsertEvent(id, d, image) ==
  /\ events' = events \cup {EventRow(id, d, image, <<>>)}
  /\ groups' = groups

createEvent(d) ==
  /\ Cardinality(events) < MaxEvents
  /\ Cardinality(storage) < MaxUploads
  /\ \E up \in UploadOutcomes(d), cr \in {"error", "ok"} :
       LET id == Cardinality(events) + 1
           fileName == Cardinality(storage) + 1
           \* the object is in storage when the upload answers with its key
           uploaded == up = "ok"
           image == IF up = "ok" THEN fileName ELSE NoKey
       IN IF user = NoUser
            THEN /\ last' = Outcome("createEvent", TRUE, "User is not logged in", NoKey, "none", 0, d)
                 /\ UNCHANGED eventVars
          ELSE IF up \in {"error", "nokey"}
            THEN /\ storage' = IF uploaded THEN storage \cup {fileName} ELSE storage
                 /\ last' = Outcome("createEvent", TRUE, "upload failed",
                                    IF uploaded THEN fileName ELSE NoKey, up, 0, d)
                 /\ UNCHANGED <<events, groups>>
          ELSE /\ storage' = IF uploaded THEN storage \cup {fileName} ELSE storage
               /\ IF d.uses_groups /\ d.event_groups = <<>>
                    THEN /\ last' = Outcome("createEvent", TRUE, "no groups were provided",
                                            image, "none", 0, d)
                         /\ UNCHANGED <<events, groups>>
                  ELSE /\ IF cr = "ok"
                            THEN IF d.uses_groups
                                   THEN create_event_with_groups(id, d, image)
                                   ELSE InsertEvent(id, d, image)
                            ELSE UNCHANGED <<events, groups>>
                       /\ last' = Outcome("createEvent", CreationFailed(cr),
                                          IF CreationFailed(cr) THEN "creation error" ELSE "",
                                          image, cr, 0, d)
  /\ UNCHANGED <<user, registrations, votes, profileVars>>

\* an organizer ends or cancels an event (the soft-delete flags of an event)
OrganizerEdit(id, flag) ==
  /\ \E e \in events :
       /\ e.id = id
       /\ events' = (events \ {e}) \cup
                      {IF flag = "is_ended" THEN [e EXCEPT !.is_ended = TRUE]
                                            ELSE [e EXCEPT !.is_cancelled = TRUE]}
       /\ events' # events
  /\ last' = Outcome("organizerEdit", FALSE, "", <<>>, "none", 0, id)
  /\ UNCHANGED <<user, groups, storage, registrations, votes, profileVars>>

(* ------------------------- database triggers -------------------------- *)
\* auth.uid(): the id of the session that runs the statement, NULL when anonymous
SessionUid(u) == IF u = NoUser THEN Null ELSE u.id

\* public.inject_user_id(): stamp the row's user_id when it is not set
inject_user_id(new, uid) ==
  IF new.user_id = Null THEN [new EXCEPT !.user_id = uid] ELSE new

\* A BEFORE INSERT trigger.  FOR EACH ROW: the row the function returns is the
\* row persisted.  Without FOR EACH ROW the trigger is a statement trigger:
\* NEW is not bound to the row and the returned row is ignored, so the row is
\* persisted as given, or the statement aborts where reading NEW is an error
\* (record "new" is not assigned yet), depending on the server version.
BeforeInsertTrigger(forEachRow, new, uid) ==
  IF forEachRow
    THEN {[ok |-> TRUE, row |-> inject_user_id(new, uid)]}
    ELSE {[ok |-> TRUE, row |-> new], [ok |-> FALSE, row |-> new]}

\* create trigger ... before insert on public.votes execute procedure ...
on_vote_insert_inject_user_id(new, uid) == BeforeInsertTrigger(FALSE, new, uid)

\* create trigger ... before insert on public.event_registrations execute procedure ...
on_registration_insert_inject_user_id(new, uid) == BeforeInsertTrigger(FALSE, new, uid)

\* an insert statement into public.votes by the current session
InsertVote(rowUserId) ==
  /\ Cardinality(votes) < MaxVotes
  /\ \E t \in on_vote_insert_inject_user_id([user_id |-> rowUserId], SessionUid(user)) :
       LET id == Cardinality(votes) + 1
       IN IF t.ok
            THEN /\ votes' = votes \cup {[id |-> id, user_id |-> t.row.user_id]}
                 /\ last' = Outcome("insertVote", FALSE, "", id, "ok", 0, rowUserId)
            ELSE /\ votes' = votes
                 /\ last' = Outcome("insertVote", TRUE, "trigger error", NoKey, "error", 0, rowUserId)
  /\ UNCHANGED <<user, eventVars, registrations, profileVars>>

(* --------------------------- registrations ---------------------------- *)
\* the mutant of HasNoUserId: the guard removed
HasNoUserId_never(u) == FALSE

\* !authStore.user?.id
HasNoUserId(u) == u.id = Undef

\* event_registrations.event_id references an event: the database rejects the
\* insert of a row whose event_id names no event
ReferencesEvent(row) == \E e \in events : e.id = row.event_id

registerForEvent(eventId, groupId) ==
  /\ Cardinality(registrations) < MaxRegs
  /\ IF HasNoUserId(user)
       THEN /\ last' = Outcome("registerForEvent", TRUE, "User not logged in", NoKey, "none", 0,
                               <<eventId, groupId>>)
            /\ UNCHANGED registrations
       ELSE \E q \in {"error", "ok"},
               t \in on_registration_insert_inject_user_id(
                       [user_id |-> user.id, event_id |-> eventId, group_id |-> groupId],
                       SessionUid(user)) :
              LET id == Cardinality(registrations) + 1
              IN IF q = "ok" /\ t.ok /\ ReferencesEvent(t.row)
                   THEN /\ registrations' = registrations \cup
                             {[id |-> id, user_id |-> t.row.user_id,
                               event_id |-> t.row.event_id, group_id |-> t.row.group_id]}
                        /\ last' = Outcome("registerForEvent", FALSE, "", id, "ok", 0,
                                           <<eventId, groupId>>)
                   ELSE /\ registrations' = registrations
                        /\ last' = Outcome("registerForEvent", TRUE, "insert error", NoKey, "error", 0,
                                           <<eventId, groupId>>)
  /\ UNCHANGED <<user, eventVars, votes, profileVars>>

isRegisteredForEvent(eventId) ==
  /\ IF HasNoUserId(user)
       THEN last' = Outcome("isRegisteredForEvent", FALSE, "", FALSE, "none", 0, eventId)
       ELSE \E q \in {"error", "data"} :
              LET count == Cardinality({r \in registrations :
                                          r.event_id = eventId /\ r.user_id = FilterValue(user.id)})
              IN last' = IF q = "error"
                           THEN Outcome("isRegisteredForEvent", TRUE, "query error", FALSE, q, 0, eventId)
                           ELSE Outcome("isRegisteredForEvent", FALSE, "", count # 0, q, 0, eventId)
  /\ UNCHANGED <<user, eventVars, registrations, votes, profileVars>>


(* ------------------------------ profile ------------------------------- *)
\* JavaScript truthiness of an optional string
Truthy(v) == v \notin {Undef, Null, ""}

\* !authStore.user || !authStore.user.email
NotLoggedIn(u) == u = NoUser \/ ~Truthy(u.email)

\* the mutant of MissingFullName: only a missing name is rejected, an empty one passes
MissingFullName_undefOnly(np) == np.fullName = Undef

\* !newProfile.fullName
MissingFullName(np) == ~Truthy(np.fullName)

\* the mutant of UpdatePayload: the description is left out of the update
UpdatePayload_noDescription(np) == [full_name |-> np.fullName, description |-> Undef]

\* .update({full_name: newProfile.fullName, description: newProfile.description})
UpdatePayload(np) == [full_name |-> np.fullName, description |-> np.description]

\* The update as the database applies it: the payload travels as JSON, which
\* leaves out the keys whose value is undefined; a column without a key keeps
\* its value.
ApplyUpdate(row, payload) ==
  [row EXCEPT !.full_name = IF payload.full_name = Undef THEN @ ELSE payload.full_name,
              !.description = IF payload.description = Undef THEN @ ELSE payload.description]

\* readProfile's retArg
readRetArg(data) ==
  [email |-> data.email, fullName |-> data.full_name, description |-> data.description]

\* the mutant of updateRetArg: the profile pushed to the store lacks the description
updateRetArg_noDescription(data) ==
  [email |-> data.email, fullName |-> data.full_name, description |-> Undef]

\* updateProfile's retArg
updateRetArg(data) ==
  [email |-> data.email, fullName |-> data.full_name, description |-> data.description]

NoRow == [user_id |-> Null, email |-> Null, full_name |-> Null, description |-> Null]
NoProfile == [fullName |-> Undef, description |-> Undef]
Idle == [stage |-> "idle", args |-> NoProfile, match |-> Undef, resp |-> "none",
         data |-> NoRow]

Calls == 1..MaxCalls
InFlight == {c \in Calls : inflight[c].stage # "idle"}

readProfile ==
  /\ IF NotLoggedIn(user)
       THEN last' = Outcome("readProfile", TRUE, "User is not logged in", NoProfile, "none", 0, <<>>)
       ELSE \E q \in {"error", "norow", "ok"} :
              last' = IF q = "error"
                        THEN Outcome("readProfile", TRUE, "query error", NoProfile, q, 0, <<>>)
                      ELSE IF q = "norow" \/ profileRow.user_id # user.id
                        THEN Outcome("readProfile", TRUE, "Fetching profile unsuccessful",
                                     NoProfile, "norow", 0, <<>>)
                      ELSE Outcome("readProfile", FALSE, "", readRetArg(profileRow), q, 0, <<>>)
  /\ UNCHANGED <<user, eventVars, registrations, votes, profileVars>>

\* updateProfile up to its await: the two checks, then the update request is sent
\* (slots: the calls that may be in flight at once; the call takes the first free one)
updateProfile(np, slots) ==
  /\ slots \ InFlight # {}
  /\ LET c == CHOOSE x \in slots \ InFlight : \A y \in slots \ InFlight : x <= y
     IN IF NotLoggedIn(user)
          THEN /\ last' = Outcome("updateProfile", TRUE, "User is not logged in", NoProfile, "none", 0, np)
               /\ UNCHANGED <<inflight, overlap>>
        ELSE IF MissingFullName(np)
          THEN /\ last' = Outcome("updateProfile", TRUE, "missing fullName", NoProfile, "none", 0, np)
               /\ UNCHANGED <<inflight, overlap>>
        ELSE /\ inflight' = [inflight EXCEPT ![c] =
                               [Idle EXCEPT !.stage = "request", !.args = np, !.match = user.id]]
             /\ overlap' = (overlap \/ InFlight # {})
             /\ last' = Outcome("updateProfile", FALSE, "", NoProfile, "sent", 0, np)
  /\ UNCHANGED <<user, eventVars, registrations, votes, profileRow, profileStore, lastWriter, clean>>

\* the database serves the update request of call c: .match({user_id}).maybeSingle()
ProfilesUpdate(c) ==
  /\ inflight[c].stage = "request"
  /\ \E q \in {"error", "norow", "ok"} :
       LET r == inflight[c]
           applied == q = "ok" /\ profileRow.user_id = r.match
           row == ApplyUpdate(profileRow, UpdatePayload(r.args))
       IN /\ profileRow' = IF applied THEN row ELSE profileRow
          /\ inflight' = [inflight EXCEPT ![c] =
                            [r EXCEPT !.stage = "response",
                                      !.resp = IF q = "error" THEN "error"
                                               ELSE IF applied THEN "ok" ELSE "norow",
                                      !.data = IF applied THEN row ELSE NoRow]]
          /\ lastWriter' = IF applied THEN c ELSE lastWriter
          /\ clean' = IF applied THEN <<>> ELSE clean
          /\ last' = Outcome("profiles.update", FALSE, "", NoProfile, "none", 0, <<>>)
  /\ UNCHANGED <<user, eventVars, registrations, votes, profileStore, overlap>>

\* updateProfile from its await on: the response is checked, the store is written
updateProfileResume(c) ==
  /\ inflight[c].stage = "response"
  /\ LET r == inflight[c]
     IN /\ IF r.resp = "error"
             THEN /\ last' = Outcome("updateProfile", TRUE, "query error", NoProfile, "error", 0, r.args)
                  /\ UNCHANGED profileStore
           ELSE IF r.resp = "norow"
             THEN /\ last' = Outcome("updateProfile", TRUE, "Update of profile unsuccessful",
                                     NoProfile, "norow", 0, r.args)
                  /\ UNCHANGED profileStore
           ELSE /\ profileStore' = updateRetArg(r.data)
                /\ last' = Outcome("updateProfile", FALSE, "", updateRetArg(r.data), "ok", 0, r.args)
        /\ clean' = IF r.resp = "ok" /\ lastWriter = c
                      THEN <<[args |-> r.args, returned |-> updateRetArg(r.data)]>> ELSE clean
        /\ lastWriter' = IF lastWriter = c THEN 0 ELSE lastWriter
        /\ inflight' = [inflight EXCEPT ![c] = Idle]
  /\ UNCHANGED <<user, eventVars, registrations, votes, profileRow, overlap>>

(* ------------------------------ inputs -------------------------------- *)
ZonedTimes == {[wall |-> t, zone |-> z] : t \in Times, z \in Zones}
GroupTitles == {<<>>, <<"A", "B">>}

\* EditEventInfo values: every combination of the fields createEvent reads
EventData ==
  [datetime : ZonedTimes, headerImageFile : BOOLEAN, uses_groups : BOOLEAN,
   event_groups : GroupTitles]

FullNames == {Undef, "", "a", "b"}
Descriptions == {Undef, "d1"}
NewProfiles == [fullName : FullNames, description : Descriptions]

EventIds == 1..MaxEvents
GroupIds == 1..(2 * MaxEvents)

(* --------------------------- specifications --------------------------- *)
Init ==
  /\ user = NoUser
  /\ events = {}
  /\ groups = {}
  /\ storage = {}
  /\ registrations = {}
  /\ votes = {}
  /\ profileRow = [user_id |-> "u1", email |-> Null, full_name |-> Null, description |-> Null]
  /\ profileStore = [email |-> Undef, fullName |-> Undef, description |-> Undef]
  /\ inflight = [c \in Calls |-> Idle]
  /\ lastWriter = 0
  /\ clean = <<>>
  /\ overlap = FALSE
  /\ last = Outcome("init", FALSE, "", <<>>, "none", 0, <<>>)

\* browsing: events without images or groups are created, edited and listed
NextEvents ==
  \/ Login(U1)
  \/ \E d \in {x \in EventData : ~x.headerImageFile /\ ~x.uses_groups /\ x.event_groups # <<>>
                                 /\ x.datetime.zone = 0} :
       createEvent(d)
  \/ \E id \in EventIds, flag \in {"is_ended", "is_cancelled"} : OrganizerEdit(id, flag)
  \/ fetchEvents

Spec == Init /\ [][NextEvents]_vars

\* creation: every kind of event data, at one date
NextCreate ==
  \/ \E u \in {NoUser, U1} : Login(u)
  \/ \E d \in {x \in EventData : x.datetime = [wall |-> 0, zone |-> 0]} : createEvent(d)

SpecCreate == Init /\ [][NextCreate]_vars

\* registration: events with and without groups, registrations and their queries
NextReg ==
  \/ \E u \in {NoUser, U1, U2} : Login(u)
  \/ \E d \in {x \in EventData : ~x.headerImageFile /\ x.event_groups # <<>>
                                 /\ x.datetime = [wall |-> MaxTime, zone |-> 0]} :
       createEvent(d)
  \/ \E e \in EventIds, g \in {NoGroupId} \cup GroupIds : registerForEvent(e, g)
  \/ \E e \in EventIds : isRegisteredForEvent(e)
  \/ fetchUserEvents

SpecReg == Init /\ [][NextReg]_vars

\* lookup: events without groups, registrations without a group, and the check
NextLookup ==
  \/ \E u \in {NoUser, U1, U2} : Login(u)
  \/ \E d \in {x \in EventData : ~x.headerImageFile /\ ~x.uses_groups /\ x.event_groups # <<>>
                                 /\ x.datetime = [wall |-> MaxTime, zone |-> 0]} :
       createEvent(d)
  \/ \E e \in EventIds : registerForEvent(e, NoGroupId)
  \/ \E e \in EventIds : isRegisteredForEvent(e)

SpecLookup == Init /\ [][NextLookup]_vars

\* inserts into the votes table by any session
NextVotes ==
  \/ \E u \in {NoUser, U1, U2} : Login(u)
  \/ \E v \in {Null, "u1", "u2"} : InsertVote(v)

SpecVotes == Init /\ [][NextVotes]_vars

\* the profile of one user, updated by one call at a time, and read
NextProfile ==
  \/ \E u \in {NoUser, U1, U1NoEmail} : Login(u)
  \/ \E np \in NewProfiles : updateProfile(np, {1})
  \/ ProfilesUpdate(1)
  \/ updateProfileResume(1)
  \/ readProfile

SpecProfile == Init /\ [][NextProfile]_vars

\* the profile of one user, updated by calls that may overlap
NextRace ==
  \/ Login(U1)
  \/ \E np \in {x \in NewProfiles : x.fullName \in {"a", "b"}} :
       updateProfile(np, Calls)
  \/ \E c \in Calls : ProfilesUpdate(c)
  \/ \E c \in Calls : updateProfileResume(c)

SpecRace == Init /\ [][NextRace]_vars

(* ------------------------------- claims ------------------------------- *)
\* C1: every event in the list a successful fetchEvents() returns is a stored
\* event that is not cancelled, not ended and later than one hour before now;
\* every stored event of that kind is in the list; the list is non-decreasing
\* by datetime.  (Spec)
C1_FetchEventsListing ==
  (last.op = "fetchEvents" /\ ~last.threw) =>
    LET res == last.result
        cutoff == last.now - 1
    IN /\ \A i \in 1..Len(res) :
            /\ res[i].is_cancelled = FALSE
            /\ res[i].is_ended = FALSE
            /\ res[i].datetime.wall - res[i].datetime.zone > cutoff
            /\ \E e \in events :
                 e.id = res[i].id /\ e.datetime = res[i].datetime.wall - res[i].datetime.zone
       /\ \A e \in events :
            (~e.is_cancelled /\ ~e.is_ended /\ e.datetime > cutoff) =>
              \E i \in 1..Len(res) : res[i].id = e.id
       /\ \A i, j \in 1..Len(res) :
            i < j => res[i].datetime.wall - res[i].datetime.zone
                       <= res[j].datetime.wall - res[j].datetime.zone

\* a listing that holds an event while an open event exactly one hour old is stored
C1_Witness ==
  /\ last.op = "fetchEvents"
  /\ ~last.threw
  /\ Len(last.result) = 1
  /\ \E e \in events : ~e.is_cancelled /\ ~e.is_ended /\ e.datetime = last.now - 1

\* C2: with no user authenticated, fetchUserEvents() fails with an error and
\* never returns a list.  (SpecReg)
C2_FetchUserEventsFailsUnauthenticated ==
  (last.op = "fetchUserEvents" /\ user = NoUser) => last.threw

\* C3: every persisted registration references an existing event and, when
\* that event uses groups, one of the two groups of its pair.  (SpecReg)
C3_RegistrationReferences ==
  \A r \in registrations :
    \E e \in events :
      /\ e.id = r.event_id
      /\ e.pair # <<>> => r.group_id \in {e.pair[1], e.pair[2]}

\* C4: an insert that the database accepts with user_id unset is persisted with
\* the user_id of the inserting session; one with user_id set keeps it.
\* (SpecVotes)
C4_InsertStampsUserId ==
  (last.op = "insertVote" /\ ~last.threw) =>
    \E v \in votes :
      /\ v.id = last.result
      /\ v.user_id = IF last.arg = Null THEN SessionUid(user) ELSE last.arg

\* C5: with no user authenticated, isRegisteredForEvent(eventId) returns
\* false, raises nothing and issues no query.  (SpecLookup)
C5_IsRegisteredUnauthenticated ==
  (last.op = "isRegisteredForEvent" /\ user = NoUser) =>
    /\ ~last.threw
    /\ last.result = FALSE
    /\ last.query = "none"

\* an unauthenticated check of an event for which a registration is stored
C5_Witness ==
  /\ last.op = "isRegisteredForEvent"
  /\ user = NoUser
  /\ \E r \in registrations : r.event_id = last.arg

\* C6: updateProfile with an empty or missing fullName throws and sends no
\* request: no call becomes in flight, and the persisted row and the store
\* stay as they are.  (SpecProfile)
C6_EmptyNameRejectedLocally ==
  [][(/\ last'.op = "updateProfile"
      /\ last'.query \in {"none", "sent"}
      /\ last'.arg.fullName \in {Undef, ""})
       => (/\ last'.threw
           /\ inflight' = inflight
           /\ profileRow' = profileRow
           /\ profileStore' = profileStore)]_vars

\* an authenticated updateProfile with an empty name, made after a profile was stored
C6_Witness ==
  /\ last.op = "updateProfile"
  /\ last.arg.fullName = ""
  /\ last.threw
  /\ user = U1
  /\ profileStore.fullName = "a"

\* two optional values are the same: equal, or both absent
SameOpt(a, b) == a = b \/ {a, b} \subseteq {Undef, Null}

\* C7 as stated: a readProfile() that succeeds after a successful
\* updateProfile(newProfile), no update in between, returns newProfile's
\* fullName and description.  (SpecProfile)
C7_RoundTrip ==
  (last.op = "readProfile" /\ ~last.threw /\ clean # <<>>) =>
    /\ SameOpt(last.result.fullName, clean[1].args.fullName)
    /\ SameOpt(last.result.description, clean[1].args.description)

\* C7 as amended: it returns newProfile's fullName, newProfile's description
\* when newProfile has one, and otherwise the description updateProfile
\* returned (the one persisted before the update).  (SpecProfile)
C7_RoundTripAmended ==
  (last.op = "readProfile" /\ ~last.threw /\ clean # <<>>) =>
    /\ last.result.fullName = clean[1].args.fullName
    /\ clean[1].args.description # Undef =>
         last.result.description = clean[1].args.description
    /\ clean[1].args.description = Undef =>
         last.result.description = clean[1].returned.description

\* a read after an update without a description, of a row that has one
C7_Witness ==
  /\ last.op = "readProfile"
  /\ ~last.threw
  /\ clean # <<>>
  /\ clean[1].args.description = Undef
  /\ last.result.description = "d1"

\* the store holds the persisted profile row
StoreIsRow ==
  /\ profileStore.email = profileRow.email
  /\ profileStore.fullName = profileRow.full_name
  /\ profileStore.description = profileRow.description

\* C8 as stated: whenever no updateProfile call is in flight and one has
\* succeeded (the store holds a name), the store holds the persisted row,
\* whether or not calls overlapped.  (SpecRace)
C8_StoreEqualsRow ==
  (InFlight = {} /\ profileStore.fullName # Undef) => StoreIsRow

\* C8 as amended: the store is written only by an updateProfile call that
\* succeeds, and when no two calls have overlapped, right after a call
\* succeeds with no call in flight the store holds the persisted row.  (SpecRace)
C8_StoreEqualsRowAmended ==
  /\ [][profileStore' # profileStore =>
          (last'.op = "updateProfile" /\ last'.query = "ok" /\ ~last'.threw)]_vars
  /\ []((InFlight = {} /\ ~overlap /\ last.op = "updateProfile" /\ last.query = "ok")
          => StoreIsRow)

\* a second successful call, not overlapping any other, that changed the stored name
C8_Witness ==
  /\ InFlight = {}
  /\ ~overlap
  /\ last.op = "updateProfile"
  /\ last.query = "ok"
  /\ profileStore.fullName = "b"
  /\ profileStore.description = "d1"

\* C9: fetchEvents() throws exactly when the query returns an error or no
\* result set; with a result set, even an empty one, it returns.  (Spec)
C9_FetchEventsThrowsOnlyOnQueryFailure ==
  last.op = "fetchEvents" => (last.threw <=> last.query \in {"error", "null"})

\* C10 as stated: a createEvent that throws has created no event, group or
\* pairing and has left no uploaded image in storage.  (SpecCreate)
C10_CreateEventAllOrNothing ==
  [][(last'.op = "createEvent" /\ last'.threw)
       => (events' = events /\ groups' = groups /\ storage' = storage)]_vars

\* C10 as amended: a createEvent that throws has created no event, group or
\* pairing.  (SpecCreate)
C10_CreateEventNoRowOnError ==
  [][(last'.op = "createEvent" /\ last'.threw)
       => (events' = events /\ groups' = groups)]_vars

\* a createEvent that uploaded its image and then failed to create the event
C10_Witness ==
  /\ last.op = "createEvent"
  /\ last.threw
  /\ last.query = "error"
  /\ last.result # NoKey
  /\ last.result \in storage

====
